---- MODULE Spec2Model ----
(***************************************************************************)
(* Model of the Link-Shortener Telegram bot (src/bot.py): the MongoDB      *)
(* user/stats collections, the credit ledger functions, the referral       *)
(* engine, the membership gate, the three ConversationHandlers and the     *)
(* admin commands.                                                         *)
(*                                                                         *)
(* Spec      handlers run one at a time, each to completion (the           *)
(*           Application is built with its defaults and every store call   *)
(*           is a blocking pymongo call), the store never fails.           *)
(* SpecConc  several /start handlers run against the same store and        *)
(*           interleave between store calls (find_one, insert_one,         *)
(*           update_one are each one atomic store step).                   *)
(***************************************************************************)
EXTENDS Integers, Sequences, FiniteSets, TLC

(***************************************************************************)
(* Bounds of the model.                                                    *)
(***************************************************************************)
MaxUpdates == 4        \* updates processed in one behaviour of Spec
NumTasks == 2          \* concurrent /start handlers in SpecConc

(***************************************************************************)
(* Program constants.                                                      *)
(***************************************************************************)
welcome_credits == 15
cost_per_url == 5
referral_bonus == 5

None == "None"

UserIds == {1, 2}              \* chat users that send updates
admin_ids == {1}               \* CONFIG['admin_ids']
REQUIRED_CHANNELS == <<"megahubbots">>

\* Conversation states. END is ConversationHandler.END: the conversation
\* key is removed, which reads back as None.
WAITING_FOR_URL == "WAITING_FOR_URL"
WAITING_FOR_EMOJI_URL == "WAITING_FOR_EMOJI_URL"
WAITING_FOR_EMOJIS == "WAITING_FOR_EMOJIS"
WAITING_FOR_STATS_URL == "WAITING_FOR_STATS_URL"
END == None

(***************************************************************************)
(* Strings that the code inspects are sequences of characters/tokens.      *)
(***************************************************************************)
Digits == <<"0", "1", "2", "3", "4", "5", "6", "7", "8", "9">>

DigitVal(c) == (CHOOSE i \in 1..10 : Digits[i] = c) - 1

IsDigit(c) == \E i \in 1..10 : Digits[i] = c

\* str(n) for n >= 0 and for n < 0
RECURSIVE StrNat(_)
StrNat(n) == IF n < 10 THEN <<Digits[n + 1]>>
             ELSE StrNat(n \div 10) \o <<Digits[(n % 10) + 1]>>

Str(n) == IF n < 0 THEN <<"-">> \o StrNat(-n) ELSE StrNat(n)

\* int(s) succeeds on an optional sign followed by one or more digits
IsIntLiteral(s) ==
    LET body == IF Len(s) > 0 /\ s[1] \in {"-", "+"} THEN Tail(s) ELSE s
    IN  Len(body) > 0 /\ \A i \in 1..Len(body) : IsDigit(body[i])

RECURSIVE ParseNat(_)
ParseNat(s) == IF Len(s) = 0 THEN 0
               ELSE 10 * ParseNat(SubSeq(s, 1, Len(s) - 1)) + DigitVal(s[Len(s)])

ParseInt(s) == IF s[1] = "-" THEN 0 - ParseNat(Tail(s))
               ELSE IF s[1] = "+" THEN ParseNat(Tail(s))
               ELSE ParseNat(s)

\* f"ref{user_id}"
\* a code that leaves the id out
RefCode_no_id(user_id) == <<"r", "e", "f">>

RefCode(user_id) == <<"r", "e", "f">> \o Str(user_id)

Max(a, b) == IF a >= b THEN a ELSE b

(***************************************************************************)
(* The store: users_collection is a list of documents in insertion order   *)
(* (no unique index is declared), stats_collection holds one document.     *)
(***************************************************************************)
VARIABLES
    users,        \* users_collection
    stats,        \* the document of stats_collection
    convUrl,      \* conv_handler_url: conversation state per user
    convEmoji,    \* conv_handler_emoji: conversation state per user
    convStats,    \* conv_handler_stats: conversation state per user
    userData,     \* context.user_data['url_to_shorten'] per user, <<>> if unset
    ev,           \* what the last handler did: replies, notifications, debit
    nupdates,     \* updates processed so far
    pc,           \* SpecConc: position of each /start handler
    tuser,        \* SpecConc: update.effective_user.id of each handler
    targs,        \* SpecConc: context.args of each handler
    tref,         \* SpecConc: user_id of handle_referral's referring_user, 0 if None
    tret          \* SpecConc: <<the record get_user returned to start()>>

storeVars == <<users, stats>>
convVars == <<convUrl, convEmoji, convStats, userData>>
taskVars == <<pc, tuser, targs, tref, tret>>
vars == <<users, stats, convUrl, convEmoji, convStats, userData, ev, nupdates,
          pc, tuser, targs, tref, tret>>

\* the document get_user builds for a new user
NewUserDoc(user_id) ==
    [user_id |-> user_id,
     credits |-> welcome_credits,
     urls_created |-> 0,
     referral_code |-> RefCode(user_id),
     referred_by |-> <<>>,          \* None: no code
     referral_count |-> 0]

\* find_one({'user_id': user_id}): position of the first match, 0 for None
FindByUserId(coll, user_id) ==
    IF \E i \in 1..Len(coll) : coll[i].user_id = user_id
    THEN CHOOSE i \in 1..Len(coll) :
            /\ coll[i].user_id = user_id
            /\ \A j \in 1..(i - 1) : coll[j].user_id # user_id
    ELSE 0

\* find_one({'referral_code': ref_code})
FindByReferralCode(coll, ref_code) ==
    IF \E i \in 1..Len(coll) : coll[i].referral_code = ref_code
    THEN CHOOSE i \in 1..Len(coll) :
            /\ coll[i].referral_code = ref_code
            /\ \A j \in 1..(i - 1) : coll[j].referral_code # ref_code
    ELSE 0

InsertOne(coll, doc) == Append(coll, doc)

\* update_one({'user_id': user_id}, {'$inc': {'credits': dc, 'urls_created': du,
\* 'referral_count': dr}}): the first match only, nothing when none matches
UpdateOneInc(coll, user_id, dc, du, dr) ==
    LET i == FindByUserId(coll, user_id)
    IN  IF i = 0 THEN coll
        ELSE [coll EXCEPT ![i].credits = @ + dc,
                          ![i].urls_created = @ + du,
                          ![i].referral_count = @ + dr]

\* update_one({'user_id': user_id}, {'$set': {'referred_by': ref_code}})
UpdateOneSetReferredBy(coll, user_id, ref_code) ==
    LET i == FindByUserId(coll, user_id)
    IN  IF i = 0 THEN coll ELSE [coll EXCEPT ![i].referred_by = ref_code]

(***************************************************************************)
(* Database management functions, as functions of the collection.          *)
(***************************************************************************)
\* get_user: the record found, or the record created and inserted
get_user(coll, user_id) ==
    LET i == FindByUserId(coll, user_id)
    IN  IF i # 0
        THEN [coll |-> coll, user |-> coll[i]]
        ELSE [coll |-> InsertOne(coll, NewUserDoc(user_id)),
              user |-> NewUserDoc(user_id)]

update_stats(st, urls, credits) ==
    [st EXCEPT !.total_urls_created = @ + urls,
               !.total_credits_used = @ + credits]

\* a test that takes every user for an admin
is_admin_anyone(user_id) == user_id \in UserIds

is_admin(user_id) == user_id \in admin_ids

\* a check that compares with zero instead of the cost
has_sufficient_credits_positive(coll, user_id) ==
    LET g == get_user(coll, user_id)
    IN  [coll |-> g.coll, ok |-> g.user.credits >= 0]

has_sufficient_credits(coll, user_id) ==
    LET g == get_user(coll, user_id)
    IN  [coll |-> g.coll, ok |-> g.user.credits >= cost_per_url]

\* a debit that forgets the stats record
deduct_credits_no_stats(coll, st, user_id) ==
    [coll |-> UpdateOneInc(coll, user_id, 0 - cost_per_url, 1, 0),
     stats |-> st]

deduct_credits(coll, st, user_id) ==
    [coll |-> UpdateOneInc(coll, user_id, 0 - cost_per_url, 1, 0),
     stats |-> update_stats(st, 1, cost_per_url)]

\* an add_credits that creates the record of a user who has none
add_credits_upsert(coll, user_id, amount) ==
    UpdateOneInc(get_user(coll, user_id).coll, user_id, amount, 0, 0)

add_credits(coll, user_id, amount) == UpdateOneInc(coll, user_id, amount, 0, 0)

\* a handle_referral that does not test whether the user already has a record
handle_referral_no_record_test(coll, user_id, ref_code) ==
    LET r == FindByReferralCode(coll, ref_code)
    IN  IF r # 0
        THEN LET c1 == get_user(coll, user_id).coll
                 c2 == UpdateOneSetReferredBy(c1, user_id, ref_code)
                 c3 == UpdateOneInc(c2, coll[r].user_id, referral_bonus, 0, 1)
             IN  [coll |-> c3, notify |-> {coll[r].user_id}]
        ELSE [coll |-> coll, notify |-> {}]

\* handle_referral: the collection afterwards and the users notified
\* a handle_referral that records the code of a new user without looking
\* for the referrer
handle_referral_any_code(coll, user_id, ref_code) ==
    LET r == FindByReferralCode(coll, ref_code)
    IN  IF FindByUserId(coll, user_id) = 0
        THEN LET c1 == get_user(coll, user_id).coll
                 c2 == UpdateOneSetReferredBy(c1, user_id, ref_code)
                 c3 == IF r = 0 THEN c2
                       ELSE UpdateOneInc(c2, coll[r].user_id, referral_bonus, 0, 1)
             IN  [coll |-> c3, notify |-> IF r = 0 THEN {} ELSE {coll[r].user_id}]
        ELSE [coll |-> coll, notify |-> {}]

handle_referral(coll, user_id, ref_code) ==
    LET r == FindByReferralCode(coll, ref_code)
    IN  IF r # 0 /\ FindByUserId(coll, user_id) = 0
        THEN LET c1 == get_user(coll, user_id).coll
                 c2 == UpdateOneSetReferredBy(c1, user_id, ref_code)
                 c3 == UpdateOneInc(c2, coll[r].user_id, referral_bonus, 0, 1)
             IN  [coll |-> c3, notify |-> {coll[r].user_id}]
        ELSE [coll |-> coll, notify |-> {}]

(***************************************************************************)
(* Channel membership verification.                                        *)
(***************************************************************************)
\* what bot.get_chat_member answers for one channel: a status, or it raises
MemberStatuses == {"member", "left", "error"}
OracleAnswers == [1..Len(REQUIRED_CHANNELS) -> MemberStatuses]

\* a gate that lets the user through when the query raises
RECURSIVE MemberFrom_fail_open(_, _)
MemberFrom_fail_open(ans, i) ==
    IF i > Len(REQUIRED_CHANNELS) THEN TRUE
    ELSE IF ans[i] = "error" THEN MemberFrom_fail_open(ans, i + 1)
    ELSE IF ans[i] \notin {"member", "administrator", "creator"} THEN FALSE
    ELSE MemberFrom_fail_open(ans, i + 1)

RECURSIVE MemberFrom(_, _)
MemberFrom(ans, i) ==
    IF i > Len(REQUIRED_CHANNELS) THEN TRUE
    ELSE IF ans[i] = "error" THEN FALSE
    ELSE IF ans[i] \notin {"member", "administrator", "creator"} THEN FALSE
    ELSE MemberFrom(ans, i + 1)

is_user_member(ans) == MemberFrom(ans, 1)

\* a wrapper that asks the oracle about everyone
channel_required_members_only(user_id, ans) == is_user_member(ans)

\* the decision of the channel_required wrapper: TRUE runs the handler
channel_required(user_id, ans) == is_admin(user_id) \/ is_user_member(ans)

\* bot.get_chat_member calls of is_user_member: it returns at the first
\* channel that raises or answers another status
RECURSIVE QueriesFrom(_, _)
QueriesFrom(ans, i) ==
    IF i > Len(REQUIRED_CHANNELS) THEN 0
    ELSE IF ans[i] \notin {"member", "administrator", "creator"} THEN 1
    ELSE 1 + QueriesFrom(ans, i + 1)

\* calls made by the wrapper: none for an admin
OracleQueries(user_id, ans) == IF is_admin(user_id) THEN 0 ELSE QueriesFrom(ans, 1)

(***************************************************************************)
(* Inputs.                                                                 *)
(***************************************************************************)
\* message texts; "http://", "https://" and "spoo.me/" stand for those
\* substrings, " " for whitespace
Texts == { <<"https://", "spoo.me/", "a">>, <<"a">>, <<" ">> }

StartsWithScheme(url) == Len(url) > 0 /\ url[1] \in {"http://", "https://"}

RECURSIVE LStrip(_)
LStrip(s) == IF Len(s) > 0 /\ s[1] = " " THEN LStrip(Tail(s)) ELSE s

RECURSIVE RStrip(_)
RStrip(s) == IF Len(s) > 0 /\ s[Len(s)] = " "
             THEN RStrip(SubSeq(s, 1, Len(s) - 1)) ELSE s

\* a test that forgets to strip
Strip_nothing(s) == s

Strip(s) == RStrip(LStrip(s))

ContainsMarker(s) == \E i \in 1..Len(s) : s[i] = "spoo.me/"

\* context.args of /start
StartArgs == { <<>>, <<<<"x">>>> } \cup { <<RefCode(r)>> : r \in UserIds }

\* context.args of /addcredits and /removecredits
AmountArgs == { Str(0 - 20), Str(5), Str(20) }
AdminArgs == { <<>>, <<<<"a">>, Str(5)>>, <<Str(2), <<"a">>>> }
                 \cup { <<Str(id), a>> : id \in UserIds, a \in AmountArgs }

\* what the shortener answers to a POST
ShortenerAnswers == {"exception", "http_error", "no_short_url", "short_url"}

\* what each candidate stats endpoint answers
EndpointAnswers == {"exception", "non200", "200"}
NumEndpoints == 3

(***************************************************************************)
(* Initial state: an empty database with the default stats document, no    *)
(* conversation in progress.                                               *)
(***************************************************************************)
\* http: requests.post calls made; queried: bot.get_chat_member calls made;
\* oracle: what bot.get_chat_member answers for each required channel while
\* the update is handled, whether or not the wrapper asks
\* source: the stats endpoint whose response body the reply shows, 0 for none
NoEvent == [handler |-> None, user |-> 0, args |-> <<>>, reply |-> None,
            notify |-> {}, debit |-> FALSE, http |-> 0, queried |-> 0,
            oracle |-> <<>>, source |-> 0]

Event(handler, user, args, reply, notify, debit) ==
    [handler |-> handler, user |-> user, args |-> args, reply |-> reply,
     notify |-> notify, debit |-> debit, http |-> 0, queried |-> 0,
     oracle |-> <<>>, source |-> 0]

\* the event of a handler wrapped by channel_required
GatedEvent(ans, handler, user, args, reply, notify, debit) ==
    [Event(handler, user, args, reply, notify, debit)
        EXCEPT !.queried = OracleQueries(user, ans), !.oracle = ans]

Tasks == 1..NumTasks

TasksIdle ==
    /\ pc = [t \in Tasks |-> "idle"]
    /\ tuser = [t \in Tasks |-> 0]
    /\ targs = [t \in Tasks |-> <<>>]
    /\ tref = [t \in Tasks |-> 0]
    /\ tret = [t \in Tasks |-> <<>>]

Init ==
    /\ users = <<>>
    /\ stats = [total_urls_created |-> 0, total_credits_used |-> 0]
    /\ convUrl = [u \in UserIds |-> None]
    /\ convEmoji = [u \in UserIds |-> None]
    /\ convStats = [u \in UserIds |-> None]
    /\ userData = [u \in UserIds |-> <<>>]
    /\ ev = NoEvent
    /\ nupdates = 0
    /\ TasksIdle

\* one more update is taken from the queue and handled to completion
Dispatch ==
    /\ nupdates < MaxUpdates
    /\ nupdates' = nupdates + 1
    /\ UNCHANGED taskVars

Blocked(handler, u, ans) ==
    /\ ev' = GatedEvent(ans, handler, u, <<>>, "join_prompt", {}, FALSE)
    /\ UNCHANGED <<storeVars, convVars>>

(***************************************************************************)
(* Command handlers.                                                       *)
(***************************************************************************)
start(u, args, ans) ==
    /\ Dispatch
    /\ IF ~channel_required(u, ans) THEN Blocked("start", u, ans)
       ELSE LET h == IF Len(args) > 0 THEN handle_referral(users, u, args[1])
                     ELSE [coll |-> users, notify |-> {}]
                g == get_user(h.coll, u)
            IN  /\ users' = g.coll
                /\ ev' = GatedEvent(ans, "start", u, args, "welcome", h.notify, FALSE)
                /\ UNCHANGED <<stats, convVars>>

profile(u, ans) ==
    /\ Dispatch
    /\ IF ~channel_required(u, ans) THEN Blocked("profile", u, ans)
       ELSE /\ users' = get_user(users, u).coll
            /\ ev' = GatedEvent(ans, "profile", u, <<>>, "profile", {}, FALSE)
            /\ UNCHANGED <<stats, convVars>>

buy_credits(u, ans) ==
    /\ Dispatch
    /\ IF ~channel_required(u, ans) THEN Blocked("buy_credits", u, ans)
       ELSE /\ ev' = GatedEvent(ans, "buy_credits", u, <<>>, "packages", {}, FALSE)
            /\ UNCHANGED <<storeVars, convVars>>

referral(u, ans) ==
    /\ Dispatch
    /\ IF ~channel_required(u, ans) THEN Blocked("referral", u, ans)
       ELSE /\ users' = get_user(users, u).coll
            /\ ev' = GatedEvent(ans, "referral", u, <<>>, "referral_link", {}, FALSE)
            /\ UNCHANGED <<stats, convVars>>

(***************************************************************************)
(* URL shortening conversations.  An entry point is taken only while its   *)
(* own ConversationHandler has no conversation for the user; the other     *)
(* ConversationHandlers are not consulted.                                 *)
(***************************************************************************)
short_longurl(u, ans) ==
    /\ Dispatch
    /\ convUrl[u] = None
    /\ IF ~channel_required(u, ans) THEN Blocked("short_longurl", u, ans)
       ELSE LET h == has_sufficient_credits(users, u)
            IN  /\ users' = h.coll
                /\ convUrl' = [convUrl EXCEPT ![u] =
                                  IF h.ok THEN WAITING_FOR_URL ELSE END]
                /\ ev' = GatedEvent(ans, "short_longurl", u, <<>>,
                               IF h.ok THEN "send_url" ELSE "not_enough_credits",
                               {}, FALSE)
                /\ UNCHANGED <<stats, convEmoji, convStats, userData>>

\* a try block that debits before it looks at the shortener's answer
Shorten_debit_first(handler, u, text, valid, answer) ==
    IF valid
    THEN LET d == deduct_credits(users, stats, u)
         IN  /\ users' = d.coll
             /\ stats' = d.stats
             /\ ev' = [Event(handler, u, <<text>>,
                             IF answer = "short_url" THEN "short_url" ELSE "error",
                             {}, TRUE)
                       EXCEPT !.http = 1]
    ELSE /\ ev' = Event(handler, u, <<text>>, "error", {}, FALSE)
         /\ UNCHANGED storeVars

\* the try block shared by handle_url and handle_emojis once the input is
\* accepted: POST, raise_for_status, short_url present, then deduct_credits
Shorten(handler, u, text, valid, answer) ==
    IF valid /\ answer = "short_url"
    THEN LET d == deduct_credits(users, stats, u)
         IN  /\ users' = d.coll
             /\ stats' = d.stats
             /\ ev' = [Event(handler, u, <<text>>, "short_url", {}, TRUE)
                       EXCEPT !.http = 1]
    ELSE /\ ev' = [Event(handler, u, <<text>>, "error", {}, FALSE)
                       EXCEPT !.http = IF valid THEN 1 ELSE 0]
         /\ UNCHANGED storeVars

\* a handle_url that keeps waiting for a URL after a failure
handle_url_reprompt(u, url, answer) ==
    /\ Dispatch
    /\ convUrl[u] = WAITING_FOR_URL
    /\ Shorten("handle_url", u, url, StartsWithScheme(url), answer)
    /\ convUrl' = [convUrl EXCEPT ![u] =
                      IF StartsWithScheme(url) /\ answer = "short_url"
                      THEN END ELSE WAITING_FOR_URL]
    /\ UNCHANGED <<convEmoji, convStats, userData>>

handle_url(u, url, answer) ==
    /\ Dispatch
    /\ convUrl[u] = WAITING_FOR_URL
    /\ Shorten("handle_url", u, url, StartsWithScheme(url), answer)
    /\ convUrl' = [convUrl EXCEPT ![u] = END]
    /\ UNCHANGED <<convEmoji, convStats, userData>>

short_emoji(u, ans) ==
    /\ Dispatch
    /\ convEmoji[u] = None
    /\ IF ~channel_required(u, ans) THEN Blocked("short_emoji", u, ans)
       ELSE LET h == has_sufficient_credits(users, u)
            IN  /\ users' = h.coll
                /\ convEmoji' = [convEmoji EXCEPT ![u] =
                                    IF h.ok THEN WAITING_FOR_EMOJI_URL ELSE END]
                /\ ev' = GatedEvent(ans, "short_emoji", u, <<>>,
                               IF h.ok THEN "send_url" ELSE "not_enough_credits",
                               {}, FALSE)
                /\ UNCHANGED <<stats, convUrl, convStats, userData>>

\* conv_handler_url is registered before conv_handler_emoji: a text goes to
\* the emoji conversation only when the url conversation does not take it
handle_emoji_url(u, url) ==
    /\ Dispatch
    /\ convUrl[u] # WAITING_FOR_URL
    /\ convEmoji[u] = WAITING_FOR_EMOJI_URL
    /\ userData' = [userData EXCEPT ![u] = url]
    /\ convEmoji' = [convEmoji EXCEPT ![u] = WAITING_FOR_EMOJIS]
    /\ ev' = Event("handle_emoji_url", u, <<url>>, "send_emojis", {}, FALSE)
    /\ UNCHANGED <<storeVars, convUrl, convStats>>

handle_emojis(u, emojis, answer) ==
    /\ Dispatch
    /\ convUrl[u] # WAITING_FOR_URL
    /\ convEmoji[u] = WAITING_FOR_EMOJIS
    /\ Shorten("handle_emojis", u, emojis, Len(Strip(emojis)) > 0, answer)
    /\ convEmoji' = [convEmoji EXCEPT ![u] = END]
    /\ UNCHANGED <<convUrl, convStats, userData>>

\* a url_stats that loads the user's record as profile does
url_stats_get_user(u, ans) ==
    /\ Dispatch
    /\ convStats[u] = None
    /\ IF ~channel_required(u, ans) THEN Blocked("url_stats", u, ans)
       ELSE /\ users' = get_user(users, u).coll
            /\ convStats' = [convStats EXCEPT ![u] = WAITING_FOR_STATS_URL]
            /\ ev' = GatedEvent(ans, "url_stats", u, <<>>, "send_short_url", {}, FALSE)
            /\ UNCHANGED <<stats, convUrl, convEmoji, userData>>

url_stats(u, ans) ==
    /\ Dispatch
    /\ convStats[u] = None
    /\ IF ~channel_required(u, ans) THEN Blocked("url_stats", u, ans)
       ELSE /\ convStats' = [convStats EXCEPT ![u] = WAITING_FOR_STATS_URL]
            /\ ev' = GatedEvent(ans, "url_stats", u, <<>>, "send_short_url", {}, FALSE)
            /\ UNCHANGED <<storeVars, convUrl, convEmoji, userData>>

\* the endpoint loop: `response` after trying endpoints i.., given the
\* response so far (None, or the status of the last endpoint that answered)
\* an endpoint loop without the break: the last response that arrived wins
RECURSIVE TryEndpoints_no_break(_, _, _)
TryEndpoints_no_break(answers, i, response) ==
    IF i > NumEndpoints THEN response
    ELSE IF answers[i] = "exception" THEN TryEndpoints_no_break(answers, i + 1, response)
    ELSE TryEndpoints_no_break(answers, i + 1, answers[i])

RECURSIVE TryEndpoints(_, _, _)
TryEndpoints(answers, i, response) ==
    IF i > NumEndpoints THEN response
    ELSE IF answers[i] = "exception" THEN TryEndpoints(answers, i + 1, response)
    ELSE IF answers[i] = "200" THEN "200"
    ELSE TryEndpoints(answers, i + 1, answers[i])

\* the endpoint whose response `response` holds after the loop, given the
\* one it holds so far (0 while it is None)
RECURSIVE ResponseFrom(_, _, _)
ResponseFrom(answers, i, held) ==
    IF i > NumEndpoints THEN held
    ELSE IF answers[i] = "exception" THEN ResponseFrom(answers, i + 1, held)
    ELSE IF answers[i] = "200" THEN i
    ELSE ResponseFrom(answers, i + 1, i)

\* requests.post calls of the endpoint loop from endpoint i on
RECURSIVE PostsFrom(_, _)
PostsFrom(answers, i) ==
    IF i > NumEndpoints THEN 0
    ELSE IF answers[i] = "200" THEN 1
    ELSE 1 + PostsFrom(answers, i + 1)

handle_stats_url(u, short_url, answers) ==
    /\ Dispatch
    /\ convUrl[u] # WAITING_FOR_URL
    /\ convEmoji[u] = None
    /\ convStats[u] = WAITING_FOR_STATS_URL
    /\ ev' = [Event("handle_stats_url", u, <<short_url>>,
                    IF ContainsMarker(short_url)
                       /\ TryEndpoints(answers, 1, None) = "200"
                    THEN "statistics" ELSE "error",
                    {}, FALSE)
                 EXCEPT !.http = IF ContainsMarker(short_url)
                                 THEN PostsFrom(answers, 1) ELSE 0,
                        !.source = IF ContainsMarker(short_url)
                                      /\ TryEndpoints(answers, 1, None) = "200"
                                   THEN ResponseFrom(answers, 1, 0) ELSE 0]
    /\ convStats' = [convStats EXCEPT ![u] = END]
    /\ UNCHANGED <<storeVars, convUrl, convEmoji, userData>>

(***************************************************************************)
(* Admin commands.                                                         *)
(***************************************************************************)
AdminsOnly(handler, u) ==
    /\ ev' = Event(handler, u, <<>>, "admins_only", {}, FALSE)
    /\ UNCHANGED <<storeVars, convVars>>

admin_stats(u) ==
    /\ Dispatch
    /\ IF ~is_admin(u) THEN AdminsOnly("admin_stats", u)
       ELSE /\ ev' = Event("admin_stats", u, <<>>, "admin_statistics", {}, FALSE)
            /\ UNCHANGED <<storeVars, convVars>>

broadcast(u, args) ==
    /\ Dispatch
    /\ IF ~is_admin(u) THEN AdminsOnly("broadcast", u)
       ELSE IF Len(args) = 0
       THEN /\ ev' = Event("broadcast", u, args, "usage", {}, FALSE)
            /\ UNCHANGED <<storeVars, convVars>>
       ELSE /\ ev' = Event("broadcast", u, args, "broadcast_sent",
                           {users[i].user_id : i \in 1..Len(users)}, FALSE)
            /\ UNCHANGED <<storeVars, convVars>>

add_credits_cmd(u, args) ==
    /\ Dispatch
    /\ IF ~is_admin(u) THEN AdminsOnly("add_credits_cmd", u)
       ELSE IF Len(args) # 2
       THEN /\ ev' = Event("add_credits_cmd", u, args, "usage", {}, FALSE)
            /\ UNCHANGED <<storeVars, convVars>>
       ELSE IF ~IsIntLiteral(args[2]) \/ ~IsIntLiteral(args[1])
       THEN /\ ev' = Event("add_credits_cmd", u, args, "error", {}, FALSE)
            /\ UNCHANGED <<storeVars, convVars>>
       ELSE LET user_id == ParseInt(args[1])
                amount == ParseInt(args[2])
                added == add_credits(users, user_id, amount)
            IN  /\ users' = get_user(added, user_id).coll
                /\ ev' = Event("add_credits_cmd", u, args, "added", {user_id}, FALSE)
                /\ UNCHANGED <<stats, convVars>>

remove_credits_cmd(u, args) ==
    /\ Dispatch
    /\ IF ~is_admin(u) THEN AdminsOnly("remove_credits_cmd", u)
       ELSE IF Len(args) # 2
       THEN /\ ev' = Event("remove_credits_cmd", u, args, "usage", {}, FALSE)
            /\ UNCHANGED <<storeVars, convVars>>
       ELSE IF ~IsIntLiteral(args[2]) \/ ~IsIntLiteral(args[1])
       THEN /\ ev' = Event("remove_credits_cmd", u, args, "error", {}, FALSE)
            /\ UNCHANGED <<storeVars, convVars>>
       ELSE LET user_id == ParseInt(args[1])
                \* user['credits'] = max(0, ...) changes the local dict only
                g == get_user(users, user_id)
            IN  /\ users' = g.coll
                /\ ev' = Event("remove_credits_cmd", u, args, "removed",
                               {user_id}, FALSE)
                /\ UNCHANGED <<stats, convVars>>

Next ==
    \/ \E u \in UserIds, args \in StartArgs, ans \in OracleAnswers : start(u, args, ans)
    \/ \E u \in UserIds, ans \in OracleAnswers : profile(u, ans)
    \/ \E u \in UserIds, ans \in OracleAnswers : buy_credits(u, ans)
    \/ \E u \in UserIds, ans \in OracleAnswers : referral(u, ans)
    \/ \E u \in UserIds, ans \in OracleAnswers : short_longurl(u, ans)
    \/ \E u \in UserIds, url \in Texts, a \in ShortenerAnswers : handle_url(u, url, a)
    \/ \E u \in UserIds, ans \in OracleAnswers : short_emoji(u, ans)
    \/ \E u \in UserIds, url \in Texts : handle_emoji_url(u, url)
    \/ \E u \in UserIds, e \in Texts, a \in ShortenerAnswers : handle_emojis(u, e, a)
    \/ \E u \in UserIds, ans \in OracleAnswers : url_stats(u, ans)
    \/ \E u \in UserIds, t \in Texts, a \in [1..NumEndpoints -> EndpointAnswers] :
          handle_stats_url(u, t, a)
    \/ \E u \in UserIds : admin_stats(u)
    \/ \E u \in UserIds, args \in {<<>>, <<"hello">>} : broadcast(u, args)
    \/ \E u \in UserIds, args \in AdminArgs : add_credits_cmd(u, args)
    \/ \E u \in UserIds, args \in AdminArgs : remove_credits_cmd(u, args)

Spec == Init /\ [][Next]_vars

(***************************************************************************)
(* Concurrent /start handlers.  Each task is one invocation of start();    *)
(* every store call of handle_referral and get_user is one step.  The      *)
(* database already holds the record of user 1, whose referral code is     *)
(* the valid one; the users of ConcUsers have no record yet.               *)
(***************************************************************************)
InitialUsers == {1}
Referrer == CHOOSE u \in InitialUsers : TRUE
ConcUsers == {2, 3, 4}
ConcArgs == { <<>>, <<RefCode(Referrer)>>, <<RefCode(2)>> }

InitConc ==
    /\ users = <<NewUserDoc(Referrer)>>
    /\ stats = [total_urls_created |-> 0, total_credits_used |-> 0]
    /\ convUrl = [u \in UserIds |-> None]
    /\ convEmoji = [u \in UserIds |-> None]
    /\ convStats = [u \in UserIds |-> None]
    /\ userData = [u \in UserIds |-> <<>>]
    /\ ev = NoEvent
    /\ nupdates = 0
    /\ TasksIdle

Goto(t, label) == pc' = [pc EXCEPT ![t] = label]

ConcFrame == UNCHANGED <<stats, convVars, ev, nupdates>>

\* start() up to its first store call: the membership gate, then the
\* test of context.args.  Task slots are taken in order.
TaskStart(t, u, args, ans) ==
    /\ pc[t] = "idle"
    /\ \A s \in Tasks : s < t => pc[s] # "idle"
    /\ tuser' = [tuser EXCEPT ![t] = u]
    /\ targs' = [targs EXCEPT ![t] = args]
    /\ Goto(t, IF ~channel_required(u, ans) THEN "blocked"
               ELSE IF Len(args) > 0 THEN "hr_find_ref" ELSE "gu_find")
    /\ UNCHANGED <<users, tref, tret>>
    /\ ConcFrame

\* handle_referral: referring_user = find_one({'referral_code': ref_code})
HrFindRef(t) ==
    /\ pc[t] = "hr_find_ref"
    /\ LET r == FindByReferralCode(users, targs[t][1])
       IN  /\ tref' = [tref EXCEPT ![t] = IF r = 0 THEN 0 ELSE users[r].user_id]
           /\ Goto(t, IF r = 0 THEN "gu_find" ELSE "hr_find_user")
    /\ UNCHANGED <<users, tuser, targs, tret>>
    /\ ConcFrame

\* a handle_referral that goes on whether or not the user has a record
HrFindUser_no_test(t) ==
    /\ pc[t] = "hr_find_user"
    /\ Goto(t, "hr_gu_find")
    /\ UNCHANGED <<users, tuser, targs, tref, tret>>
    /\ ConcFrame

\* handle_referral: not find_one({'user_id': user_id})
HrFindUser(t) ==
    /\ pc[t] = "hr_find_user"
    /\ Goto(t, IF FindByUserId(users, tuser[t]) = 0 THEN "hr_gu_find" ELSE "gu_find")
    /\ UNCHANGED <<users, tuser, targs, tref, tret>>
    /\ ConcFrame

\* get_user called by handle_referral: its find_one
HrGetUserFind(t) ==
    /\ pc[t] = "hr_gu_find"
    /\ Goto(t, IF FindByUserId(users, tuser[t]) = 0 THEN "hr_gu_insert" ELSE "hr_set")
    /\ UNCHANGED <<users, tuser, targs, tref, tret>>
    /\ ConcFrame

\* get_user called by handle_referral: its insert_one
HrGetUserInsert(t) ==
    /\ pc[t] = "hr_gu_insert"
    /\ users' = InsertOne(users, NewUserDoc(tuser[t]))
    /\ Goto(t, "hr_set")
    /\ UNCHANGED <<tuser, targs, tref, tret>>
    /\ ConcFrame

\* handle_referral: update_one $set referred_by
HrSetReferredBy(t) ==
    /\ pc[t] = "hr_set"
    /\ users' = UpdateOneSetReferredBy(users, tuser[t], targs[t][1])
    /\ Goto(t, "hr_inc")
    /\ UNCHANGED <<tuser, targs, tref, tret>>
    /\ ConcFrame

\* an update that writes back the referrer's record as read by find_one
\* plus the bonus, overwriting what other handlers added since
HrIncReferrer_stale_write(t) ==
    /\ pc[t] = "hr_inc"
    /\ LET i == FindByUserId(users, tref[t])
       IN  users' = [users EXCEPT ![i].referral_count = 1,
                                  ![i].credits = welcome_credits + referral_bonus]
    /\ Goto(t, "gu_find")
    /\ UNCHANGED <<tuser, targs, tref, tret>>
    /\ ConcFrame

\* handle_referral: update_one $inc on the referring user
HrIncReferrer(t) ==
    /\ pc[t] = "hr_inc"
    /\ users' = UpdateOneInc(users, tref[t], referral_bonus, 0, 1)
    /\ Goto(t, "gu_find")
    /\ UNCHANGED <<tuser, targs, tref, tret>>
    /\ ConcFrame

\* get_user called by start(): its find_one
GetUserFind(t) ==
    /\ pc[t] = "gu_find"
    /\ LET i == FindByUserId(users, tuser[t])
       IN  /\ tret' = [tret EXCEPT ![t] = IF i = 0 THEN <<>> ELSE <<users[i]>>]
           /\ Goto(t, IF i = 0 THEN "gu_insert" ELSE "done")
    /\ UNCHANGED <<users, tuser, targs, tref>>
    /\ ConcFrame

\* get_user called by start(): its insert_one
GetUserInsert(t) ==
    /\ pc[t] = "gu_insert"
    /\ users' = InsertOne(users, NewUserDoc(tuser[t]))
    /\ tret' = [tret EXCEPT ![t] = <<NewUserDoc(tuser[t])>>]
    /\ Goto(t, "done")
    /\ UNCHANGED <<tuser, targs, tref>>
    /\ ConcFrame

NextConc ==
    \/ \E t \in Tasks, u \in ConcUsers, args \in ConcArgs, ans \in OracleAnswers :
          TaskStart(t, u, args, ans)
    \/ \E t \in Tasks : HrFindRef(t)
    \/ \E t \in Tasks : HrFindUser(t)
    \/ \E t \in Tasks : HrGetUserFind(t)
    \/ \E t \in Tasks : HrGetUserInsert(t)
    \/ \E t \in Tasks : HrSetReferredBy(t)
    \/ \E t \in Tasks : HrIncReferrer(t)
    \/ \E t \in Tasks : GetUserFind(t)
    \/ \E t \in Tasks : GetUserInsert(t)

SpecConc == InitConc /\ [][NextConc]_vars

(***************************************************************************)
(* The shortening conversations with a store that can fail inside          *)
(* deduct_credits.  The fault names the pymongo call that raises; a call    *)
(* that raises writes nothing, and the exception leaves deduct_credits      *)
(* and is caught by the handler's except branch.                            *)
(***************************************************************************)
StoreFaults == {"none", "users_update_one", "stats_update_one"}

\* coll, stats: the store after the call; raised: an exception left it
deduct_credits_failing(coll, st, user_id, fault) ==
    IF fault = "users_update_one"
    THEN [coll |-> coll, stats |-> st, raised |-> TRUE]
    ELSE IF fault = "stats_update_one"
    THEN [coll |-> UpdateOneInc(coll, user_id, 0 - cost_per_url, 1, 0),
          stats |-> st, raised |-> TRUE]
    ELSE [coll |-> deduct_credits(coll, st, user_id).coll,
          stats |-> deduct_credits(coll, st, user_id).stats,
          raised |-> FALSE]

\* the try block shared by handle_url and handle_emojis
ShortenFailing(handler, u, text, valid, answer, fault) ==
    IF valid /\ answer = "short_url"
    THEN LET d == deduct_credits_failing(users, stats, u, fault)
         IN  /\ users' = d.coll
             /\ stats' = d.stats
             /\ ev' = [Event(handler, u, <<text>>,
                             IF d.raised THEN "error" ELSE "short_url",
                             {}, TRUE)
                       EXCEPT !.http = 1]
    ELSE Shorten(handler, u, text, valid, answer)

handle_url_failing(u, url, answer, fault) ==
    /\ Dispatch
    /\ convUrl[u] = WAITING_FOR_URL
    /\ ShortenFailing("handle_url", u, url, StartsWithScheme(url), answer, fault)
    /\ convUrl' = [convUrl EXCEPT ![u] = END]
    /\ UNCHANGED <<convEmoji, convStats, userData>>

handle_emojis_failing(u, emojis, answer, fault) ==
    /\ Dispatch
    /\ convUrl[u] # WAITING_FOR_URL
    /\ convEmoji[u] = WAITING_FOR_EMOJIS
    /\ ShortenFailing("handle_emojis", u, emojis, Len(Strip(emojis)) > 0,
                      answer, fault)
    /\ convEmoji' = [convEmoji EXCEPT ![u] = END]
    /\ UNCHANGED <<convUrl, convStats, userData>>

NextFault ==
    \/ \E u \in UserIds, ans \in OracleAnswers : short_longurl(u, ans)
    \/ \E u \in UserIds, url \in Texts, a \in ShortenerAnswers, f \in StoreFaults :
          handle_url_failing(u, url, a, f)
    \/ \E u \in UserIds, ans \in OracleAnswers : short_emoji(u, ans)
    \/ \E u \in UserIds, url \in Texts : handle_emoji_url(u, url)
    \/ \E u \in UserIds, e \in Texts, a \in ShortenerAnswers, f \in StoreFaults :
          handle_emojis_failing(u, e, a, f)

SpecFault == Init /\ [][NextFault]_vars

(***************************************************************************)
(* Properties.                                                             *)
(***************************************************************************)
HasRecord(coll, u) == FindByUserId(coll, u) # 0

\* the record update_one and find_one see for u
DocIn(coll, u) == coll[FindByUserId(coll, u)]

\* number of stored records with user_id u
Count(coll, u) == Cardinality({i \in 1..Len(coll) : coll[i].user_id = u})

\* the balance a user has before a command: the welcome grant if no record
BalanceIn(coll, u) ==
    IF HasRecord(coll, u) THEN DocIn(coll, u).credits ELSE welcome_credits

RECURSIVE SumUrlsCreated(_)
SumUrlsCreated(coll) ==
    IF Len(coll) = 0 THEN 0
    ELSE coll[1].urls_created + SumUrlsCreated(Tail(coll))

\* a handler ran in this step (Spec)
Handled(handler) == nupdates' = nupdates + 1 /\ ev'.handler = handler

Started == {t \in Tasks : pc[t] # "idle"}
AllDone == Started # {} /\ \A t \in Started : pc[t] \in {"done", "blocked"}
DistinctUsers == \A s, t \in Started : s # t => tuser[s] # tuser[t]

\* C1: every stored user record has credits >= 0 in every reachable state.
C1_CreditsNonNegative ==
    \A i \in 1..Len(users) : users[i].credits >= 0

\* C2: a debit on user u either finds credits >= cost and leaves
\* credits - cost and urls_created + 1, or finds credits < cost and changes
\* neither u's record nor the stats record.
C2_DebitContract ==
    [][ (nupdates' = nupdates + 1 /\ ev'.debit) =>
          LET u == ev'.user
              before == DocIn(users, u)
              after == DocIn(users', u)
          IN  IF before.credits >= cost_per_url
              THEN /\ after.credits = before.credits - cost_per_url
                   /\ after.urls_created = before.urls_created + 1
              ELSE /\ after = before
                   /\ stats' = stats ]_vars

\* C3: when two or more /start <code> handlers of one new user, all with
\* the referrer's code, have interleaved and finished, the user has exactly
\* one record and the referrer got one referral and one bonus at most.
C3_SameUserOnce ==
    ( /\ AllDone
      /\ Cardinality(Started) >= 2
      /\ \A s, t \in Started : tuser[s] = tuser[t]
      /\ \A t \in Started : pc[t] = "done" /\ targs[t] = <<RefCode(Referrer)>> )
    => /\ \A t \in Started : Count(users, tuser[t]) = 1
       /\ DocIn(users, Referrer).referral_count <= 1
       /\ DocIn(users, Referrer).credits <= welcome_credits + referral_bonus

\* C4: /start <code> by a user who already has a record changes no user
\* record; by a new user with a referrer's code it adds one referral and
\* one bonus to the referrer and sets the new user's referred_by.
C4_SecondStartNoOp ==
    [][ (Handled("start") /\ ev'.reply = "welcome" /\ Len(ev'.args) > 0) =>
          LET u == ev'.user
              code == ev'.args[1]
              r == FindByReferralCode(users, code)
          IN  IF HasRecord(users, u) THEN users' = users
              ELSE r # 0 =>
                   LET ref == users[r].user_id
                   IN  /\ DocIn(users', ref).referral_count = users[r].referral_count + 1
                       /\ DocIn(users', ref).credits = users[r].credits + referral_bonus
                       /\ DocIn(users', u).referred_by = code ]_vars

\* the last handler was a repeated /start <code> of a referred user: the
\* user is referred by that code and nobody was notified
C4_Witness ==
    /\ ev.handler = "start" /\ ev.reply = "welcome" /\ Len(ev.args) > 0
    /\ ev.notify = {}
    /\ HasRecord(users, ev.user)
    /\ DocIn(users, ev.user).referred_by = ev.args[1]
    /\ \E i \in 1..Len(users) :
          users[i].referral_code = ev.args[1] /\ users[i].referral_count = 1

\* the handlers that ran /start with the referrer's code
WithReferrerCode == {t \in Started : pc[t] = "done" /\ targs[t] = <<RefCode(Referrer)>>}

\* C5: when /start handlers of distinct new users have interleaved and
\* finished, the referrer has one referral and one bonus for each handler
\* that carried its code, and each of those users has one record with
\* referred_by equal to the code.
C5_DistinctUsersExact ==
    (AllDone /\ DistinctUsers) =>
       LET k == Cardinality(WithReferrerCode)
       IN  /\ DocIn(users, Referrer).referral_count = k
           /\ DocIn(users, Referrer).credits = welcome_credits + k * referral_bonus
           /\ \A t \in WithReferrerCode :
                 /\ Count(users, tuser[t]) = 1
                 /\ DocIn(users, tuser[t]).referred_by = RefCode(Referrer)

C5_Witness ==
    /\ AllDone /\ DistinctUsers
    /\ Cardinality(WithReferrerCode) >= 2
    /\ DocIn(users, Referrer).referral_count = Cardinality(WithReferrerCode)

\* C6: when the get_user calls of /start handlers (without arguments) of one
\* new user have interleaved and finished, the user has exactly one record,
\* with the welcome grant, and every handler got the same record.
C6_GetOrCreateOnce ==
    ( /\ AllDone
      /\ \A s, t \in Started : tuser[s] = tuser[t]
      /\ \A t \in Started : pc[t] = "done" /\ targs[t] = <<>> )
    => /\ \A t \in Started :
             /\ Count(users, tuser[t]) = 1
             /\ DocIn(users, tuser[t]).credits = welcome_credits
       /\ \A s, t \in Started : tret[s] = tret[t]

\* C7: between handlers, total_urls_created equals the sum of urls_created
\* over all stored user records.
C7_TotalUrlsIsSum ==
    stats.total_urls_created = SumUrlsCreated(users)

C7_Witness ==
    /\ stats.total_urls_created = 2
    /\ ev.debit

\* flows of u that wait for a text
PendingFlows(u) ==
    (IF convUrl[u] # None THEN 1 ELSE 0)
    + (IF convEmoji[u] # None THEN 1 ELSE 0)
    + (IF convStats[u] # None THEN 1 ELSE 0)

\* C8: no user has two multi-turn flows pending at once.
C8_OneActiveSession ==
    \A u \in UserIds : PendingFlows(u) <= 1

\* C9: after /removecredits <userId> <amount> with amount >= 0 reports
\* success for a user with a record, the stored credits of that user are
\* max(0, credits before - amount).
C9_RemoveCreditsStored ==
    [][ (Handled("remove_credits_cmd") /\ ev'.reply = "removed") =>
          LET user_id == ParseInt(ev'.args[1])
              amount == ParseInt(ev'.args[2])
          IN  (amount >= 0 /\ HasRecord(users, user_id)) =>
                 DocIn(users', user_id).credits
                    = Max(0, DocIn(users, user_id).credits - amount) ]_vars

\* C10: after /addcredits <userId> <amount> with amount > 0 reports success,
\* the stored credits of the target are amount higher than before, where a
\* target without a record starts from the welcome grant.
C10_AddCreditsStored ==
    [][ (Handled("add_credits_cmd") /\ ev'.reply = "added") =>
          LET user_id == ParseInt(ev'.args[1])
              amount == ParseInt(ev'.args[2])
          IN  amount > 0 =>
                 /\ HasRecord(users', user_id)
                 /\ DocIn(users', user_id).credits
                       = BalanceIn(users, user_id) + amount ]_vars

\* a text of user u is handled in this step
TextHandlers == {"handle_url", "handle_emoji_url", "handle_emojis", "handle_stats_url"}

\* texts the pending flows of u still wait for
TextsAwaited(cu, ce, cs, u) ==
    (IF cu[u] = WAITING_FOR_URL THEN 1 ELSE 0)
    + (IF ce[u] = WAITING_FOR_EMOJI_URL THEN 2
       ELSE IF ce[u] = WAITING_FOR_EMOJIS THEN 1 ELSE 0)
    + (IF cs[u] = WAITING_FOR_STATS_URL THEN 1 ELSE 0)

\* some handler takes a text of user u
TextTaken(u) ==
    \/ \E t \in Texts, a \in ShortenerAnswers : handle_url(u, t, a)
    \/ \E t \in Texts : handle_emoji_url(u, t)
    \/ \E t \in Texts, a \in ShortenerAnswers : handle_emojis(u, t, a)
    \/ \E t \in Texts, a \in [1..NumEndpoints -> EndpointAnswers] :
          handle_stats_url(u, t, a)

\* C11: the handler of a final awaiting state (handle_url, handle_emojis,
\* handle_stats_url) ends its conversation whatever it replies; every text
\* handled lowers by one the number of texts the user's flows wait for and
\* changes no other user's flows; and while a flow of a user waits, a text
\* of that user is taken by some handler.
C11_FlowsTerminate ==
    /\ [][ (nupdates' = nupdates + 1 /\ ev'.handler \in TextHandlers) =>
             LET u == ev'.user
             IN  /\ ev'.handler = "handle_url" => convUrl'[u] = None
                 /\ ev'.handler = "handle_emojis" => convEmoji'[u] = None
                 /\ ev'.handler = "handle_stats_url" => convStats'[u] = None
                 /\ ev'.handler # "handle_emoji_url" =>
                       ev'.reply \in {"short_url", "statistics", "error"}
                 /\ TextsAwaited(convUrl', convEmoji', convStats', u)
                       = TextsAwaited(convUrl, convEmoji, convStats, u) - 1
                 /\ \A v \in UserIds \ {u} :
                       TextsAwaited(convUrl', convEmoji', convStats', v)
                          = TextsAwaited(convUrl, convEmoji, convStats, v) ]_vars
    /\ [](\A u \in UserIds :
             (TextsAwaited(convUrl, convEmoji, convStats, u) > 0
              /\ nupdates < MaxUpdates) => ENABLED TextTaken(u))

\* a URL flow ended on a failure
C11_Witness ==
    /\ ev.handler = "handle_url" /\ ev.reply = "error"
    /\ convUrl[ev.user] = None

\* exactly one debit of cost_per_url on u's record and the stats record
OneDebit(u) ==
    /\ Len(users') = Len(users)
    /\ DocIn(users', u).credits = DocIn(users, u).credits - cost_per_url
    /\ DocIn(users', u).urls_created = DocIn(users, u).urls_created + 1
    /\ \A i \in 1..Len(users) : users[i].user_id # u => users'[i] = users[i]
    /\ stats' = [total_urls_created |-> stats.total_urls_created + 1,
                 total_credits_used |-> stats.total_credits_used + cost_per_url]

\* C12: in handle_url and handle_emojis, when the input is rejected, the
\* shortener call fails, answers a non-success status or answers without
\* short_url, the user records and the stats record are unchanged; when
\* it answers a short_url, exactly one debit of cost_per_url is applied.
C12_DebitOnlyOnSuccess ==
    [][ (nupdates' = nupdates + 1
         /\ ev'.handler \in {"handle_url", "handle_emojis"}) =>
          LET u == ev'.user
              t == ev'.args[1]
          IN  \A a \in ShortenerAnswers :
                /\ handle_url(u, t, a) =>
                      IF StartsWithScheme(t) /\ a = "short_url"
                      THEN OneDebit(u) /\ ev'.reply = "short_url"
                      ELSE users' = users /\ stats' = stats /\ ev'.reply = "error"
                /\ handle_emojis(u, t, a) =>
                      IF Len(Strip(t)) > 0 /\ a = "short_url"
                      THEN OneDebit(u) /\ ev'.reply = "short_url"
                      ELSE users' = users /\ stats' = stats /\ ev'.reply = "error" ]_vars

\* the shortener was called and the flow ended with an error
C12_Witness ==
    /\ ev.handler \in {"handle_url", "handle_emojis"}
    /\ ev.reply = "error" /\ ev.http = 1
    /\ stats.total_urls_created = 0

WhitespaceOnly(t) == \A i \in 1..Len(t) : t[i] = " "

\* C13: handle_emojis on an input that is whitespace only replies an
\* error without calling the shortener, debits nothing (user records and
\* stats record unchanged) and ends the emoji conversation.
C13_WhitespaceEmojisRejected ==
    [][ (nupdates' = nupdates + 1 /\ ev'.handler = "handle_emojis"
         /\ WhitespaceOnly(ev'.args[1])) =>
          /\ ev'.reply = "error"
          /\ ev'.http = 0
          /\ ~ev'.debit
          /\ users' = users
          /\ stats' = stats
          /\ convEmoji'[ev'.user] = None ]_vars

C13_Witness ==
    /\ ev.handler = "handle_emojis"
    /\ Len(ev.args[1]) > 0 /\ WhitespaceOnly(ev.args[1])
    /\ ev.reply = "error"
    /\ convEmoji[ev.user] = None

\* C14: /short_longurl and /short_emoji, once past the membership gate,
\* start waiting for a URL only if the user's credits are at least
\* cost_per_url; with fewer credits the conversation stays ended and the
\* user records, the stats record and the other conversations are unchanged.
C14_EntryGuard ==
    [][ (nupdates' = nupdates + 1
         /\ ev'.handler \in {"short_longurl", "short_emoji"}
         /\ ev'.reply # "join_prompt") =>
          LET u == ev'.user
              mine == IF ev'.handler = "short_longurl" THEN convUrl' ELSE convEmoji'
              waiting == IF ev'.handler = "short_longurl"
                         THEN WAITING_FOR_URL ELSE WAITING_FOR_EMOJI_URL
          IN  IF BalanceIn(users, u) >= cost_per_url
              THEN mine[u] = waiting /\ ev'.reply = "send_url"
              ELSE /\ ev'.reply = "not_enough_credits"
                   /\ convUrl' = convUrl /\ convEmoji' = convEmoji
                   /\ convStats' = convStats
                   /\ mine[u] = None
                   /\ users' = users
                   /\ stats' = stats ]_vars

\* a shortening command was refused for lack of credits
C14_Witness ==
    /\ ev.handler \in {"short_longurl", "short_emoji"}
    /\ ev.reply = "not_enough_credits"
    /\ DocIn(users, ev.user).credits < cost_per_url
    /\ convUrl[ev.user] = None /\ convEmoji[ev.user] = None

GatedHandlers == {"start", "profile", "buy_credits", "referral",
                  "short_longurl", "short_emoji", "url_stats"}

\* one update handled by a handler wrapped by channel_required
GatedStep ==
    /\ nupdates' = nupdates + 1
    /\ ev'.handler \in GatedHandlers

Refuses(ans) ==
    \E i \in 1..Len(REQUIRED_CHANNELS) :
        ans[i] \notin {"member", "administrator", "creator"}

\* C15: for a user who is not an admin, when the membership query of some
\* required channel raises or answers a status other than member,
\* administrator or creator, the wrapped command only sends the join
\* prompt: no user record is created or changed, the stats record and
\* every conversation stay as they were.
C15_GateFailClosed ==
    [][ (GatedStep /\ ev'.user \notin admin_ids /\ Refuses(ev'.oracle)) =>
             /\ ev'.reply = "join_prompt"
             /\ ev'.notify = {}
             /\ users' = users
             /\ stats' = stats
             /\ convUrl' = convUrl /\ convEmoji' = convEmoji
             /\ convStats' = convStats /\ userData' = userData ]_vars

\* a user without a record was stopped by a query that raised
C15_Witness ==
    /\ ev.handler \in GatedHandlers
    /\ ev.user \notin admin_ids
    /\ \E i \in 1..Len(REQUIRED_CHANNELS) : ev.oracle[i] = "error"
    /\ ev.reply = "join_prompt"
    /\ ~HasRecord(users, ev.user)

\* what a wrapped handler answers when it runs
HandlerReplies(handler) ==
    CASE handler = "start" -> {"welcome"}
      [] handler = "profile" -> {"profile"}
      [] handler = "buy_credits" -> {"packages"}
      [] handler = "referral" -> {"referral_link"}
      [] handler \in {"short_longurl", "short_emoji"} ->
            {"send_url", "not_enough_credits"}
      [] handler = "url_stats" -> {"send_short_url"}
      [] OTHER -> {}

\* C16: for an admin the wrapped handler runs whatever the membership
\* oracle would answer (member, another status, an error): the reply is the
\* handler's own and never the join prompt, the handler's get_user has
\* created the admin's record or its conversation has started, and
\* get_chat_member is not called.
C16_AdminBypass ==
    [][ (GatedStep /\ ev'.user \in admin_ids) =>
          LET u == ev'.user
          IN /\ ev'.queried = 0
             /\ ev'.reply \in HandlerReplies(ev'.handler)
             /\ ev'.handler \in {"start", "profile", "referral",
                                 "short_longurl", "short_emoji"} =>
                    HasRecord(users', u)
             /\ ev'.reply = "send_url" =>
                    (convUrl'[u] # None \/ convEmoji'[u] # None)
             /\ ev'.handler = "url_stats" =>
                    convStats'[u] = WAITING_FOR_STATS_URL ]_vars

\* an admin's command ran although the oracle would have raised
C16_Witness ==
    /\ ev.handler \in GatedHandlers
    /\ ev.user \in admin_ids
    /\ \E i \in 1..Len(REQUIRED_CHANNELS) : ev.oracle[i] = "error"
    /\ ev.reply \in HandlerReplies(ev.handler)
    /\ ev.queried = 0

AdminHandlers == {"admin_stats", "broadcast", "add_credits_cmd",
                  "remove_credits_cmd"}

\* C17: /stats, /broadcast, /addcredits and /removecredits sent by a user
\* who is not in admin_ids are answered with the refusal only: no user
\* record is created or changed, the stats record and the conversations
\* stay as they were, and no message goes to any other user.
C17_AdminOnlyRejected ==
    [][ (nupdates' = nupdates + 1
         /\ ev'.handler \in AdminHandlers
         /\ ev'.user \notin admin_ids) =>
          /\ ev'.reply = "admins_only"
          /\ ev'.notify = {}
          /\ users' = users
          /\ stats' = stats
          /\ convUrl' = convUrl /\ convEmoji' = convEmoji
          /\ convStats' = convStats /\ userData' = userData ]_vars

\* a non-admin was refused while there were stored users to write to
C17_Witness ==
    /\ ev.handler \in AdminHandlers
    /\ ev.user \notin admin_ids
    /\ ev.reply = "admins_only"
    /\ \E i \in 1..Len(users) : users[i].user_id # ev.user

\* ids of one and two digits, and negative ones
IdSample ==
    UserIds \cup {10 * u + v : u \in UserIds, v \in UserIds}
            \cup {0 - u : u \in UserIds}

\* C18: the referral_code of every stored record, looked up as
\* handle_referral looks a code up, finds a record with the same user_id;
\* records of different users have different codes, and so do the codes
\* built for different ids.
C18_ReferralCodeRoundTrip ==
    /\ \A i \in 1..Len(users) :
          LET k == FindByReferralCode(users, users[i].referral_code)
          IN  k # 0 /\ users[k].user_id = users[i].user_id
    /\ \A i, j \in 1..Len(users) :
          users[i].user_id # users[j].user_id =>
              users[i].referral_code # users[j].referral_code
    /\ \A a, b \in IdSample : a # b => RefCode(a) # RefCode(b)

\* two users are stored and the code of the later one skips the earlier
C18_Witness ==
    /\ Len(users) >= 2
    /\ \E i \in 2..Len(users) :
          /\ users[i].user_id # users[1].user_id
          /\ FindByReferralCode(users, users[i].referral_code) = i

\* C19: deduct_credits changes the user's record and the stats record
\* together or not at all, also when a store call inside it raises: an
\* update handled by handle_url or handle_emojis changes the stored users
\* exactly when it changes the stats record, and then it has taken
\* cost_per_url credits, counted one URL on the user and added one URL and
\* cost_per_url credits to the stats.
C19_DebitAllOrNothing ==
    [][ (nupdates' = nupdates + 1
         /\ ev'.handler \in {"handle_url", "handle_emojis"}) =>
          /\ (users' # users) <=> (stats' # stats)
          /\ users' # users =>
                (OneDebit(ev'.user) /\ ev'.reply = "short_url") ]_vars

\* C20: /start <code> whose code belongs to no stored record, or whose
\* sender already has a record, leaves every stored record as it was and
\* notifies nobody; the record start then creates for a new sender carries
\* no referred_by.  In every update, a record that is already stored keeps
\* its referred_by.
C20_AttributeNoOp ==
    /\ [][ (Handled("start") /\ ev'.reply = "welcome" /\ Len(ev'.args) > 0
            /\ (FindByReferralCode(users, ev'.args[1]) = 0
                \/ HasRecord(users, ev'.user))) =>
             /\ ev'.notify = {}
             /\ \A i \in 1..Len(users) : users'[i] = users[i]
             /\ IF HasRecord(users, ev'.user) THEN users' = users
                ELSE users' = Append(users, NewUserDoc(ev'.user)) ]_vars
    /\ [][ /\ Len(users') >= Len(users)
           /\ \A i \in 1..Len(users) :
                 /\ users'[i].user_id = users[i].user_id
                 /\ users'[i].referred_by = users[i].referred_by ]_vars

\* a new user came with a code nobody has, while other users were stored
C20_Witness ==
    /\ ev.handler = "start" /\ ev.reply = "welcome"
    /\ ev.args = << <<"x">> >>
    /\ ev.notify = {}
    /\ Len(users) >= 2
    /\ users[Len(users)] = NewUserDoc(ev.user)

\* C21: /url_stats and the text that follows it, whether the text is a
\* spoo.me URL whose statistics are found, a text without "spoo.me/", or a
\* URL for which every endpoint fails, leave the stored user records and
\* the stats record exactly as they were; no record is created.
C21_StatsFlowNoLedger ==
    [][ (nupdates' = nupdates + 1
         /\ ev'.handler \in {"url_stats", "handle_stats_url"}) =>
          /\ users' = users
          /\ stats' = stats ]_vars

\* a user without a record went through the flow, every endpoint was
\* tried and failed, and the user still has no record
C21_Witness ==
    /\ ev.handler = "handle_stats_url"
    /\ ev.reply = "error"
    /\ ev.http = NumEndpoints
    /\ ~HasRecord(users, ev.user)
    /\ convStats[ev.user] = None

\* the first endpoint that answers 200, 0 if none does
FirstOk(answers) ==
    IF \E i \in 1..NumEndpoints : answers[i] = "200"
    THEN CHOOSE i \in 1..NumEndpoints :
            /\ answers[i] = "200"
            /\ \A j \in 1..(i - 1) : answers[j] # "200"
    ELSE 0

\* C22: handle_stats_url, given a text with "spoo.me/", posts to the
\* endpoints in their order; when some endpoint answers 200 it has called
\* exactly the endpoints up to the first such one, none after it, and the
\* statistics it reports are that endpoint's body; when every endpoint
\* raises or answers another status, in any mix, it has called them all
\* and reports the failure, never statistics.
C22_FirstSuccessfulEndpoint ==
    [][ (nupdates' = nupdates + 1 /\ ev'.handler = "handle_stats_url"
         /\ ContainsMarker(ev'.args[1])) =>
          \A answers \in [1..NumEndpoints -> EndpointAnswers] :
             handle_stats_url(ev'.user, ev'.args[1], answers) =>
                LET k == FirstOk(answers)
                IN  IF k # 0
                    THEN /\ ev'.reply = "statistics"
                         /\ ev'.http = k
                         /\ ev'.source = k
                    ELSE /\ ev'.reply = "error"
                         /\ ev'.http = NumEndpoints
                         /\ ev'.source = 0 ]_vars

\* the first endpoint raised, the second answered 200 and was reported,
\* the third was not called
C22_Witness ==
    /\ ev.handler = "handle_stats_url"
    /\ ev.reply = "statistics"
    /\ ev.source > 1
    /\ ev.http = ev.source
    /\ ev.http < NumEndpoints

\* the amount this update's /addcredits applies to the stored record doc
Granted(doc) ==
    IF /\ ev'.handler = "add_credits_cmd"
       /\ ev'.reply = "added"
       /\ ParseInt(ev'.args[1]) = doc.user_id
    THEN ParseInt(ev'.args[2])
    ELSE 0

\* C23: with one update handled at a time, every update changes the
\* credits of each stored record by referral_bonus for each referral it
\* gains, minus cost_per_url for each URL it creates, plus the amount of an
\* /addcredits applied to it, and by nothing else; a record created by the
\* update starts with welcome_credits, no referral and no URL.  Hence the
\* credits of every record equal welcome_credits + referral_bonus *
\* referral_count + the amounts applied to it - cost_per_url * urls_created.
C23_LedgerConservation ==
    [][ (nupdates' = nupdates + 1) =>
          /\ Len(users') >= Len(users)
          /\ \A i \in 1..Len(users) :
                /\ users'[i].user_id = users[i].user_id
                /\ users'[i].credits - users[i].credits
                     = referral_bonus
                          * (users'[i].referral_count - users[i].referral_count)
                       - cost_per_url
                          * (users'[i].urls_created - users[i].urls_created)
                       + Granted(users[i])
          /\ \A i \in (Len(users) + 1)..Len(users') :
                /\ users'[i].credits = welcome_credits
                /\ users'[i].referral_count = 0
                /\ users'[i].urls_created = 0 ]_vars

\* a user who referred one user and shortened one URL
C23_Witness ==
    \E i \in 1..Len(users) :
        /\ users[i].referral_count = 1
        /\ users[i].urls_created = 1
        /\ users[i].credits = welcome_credits + referral_bonus - cost_per_url

\* the steps of handle_referral inside its if branch
Attributing == {"hr_gu_find", "hr_gu_insert", "hr_set", "hr_inc"}

\* C24: under every interleaving of the store calls of /start handlers, no
\* stored record has referred_by equal to its own referral_code, no handler
\* is inside the attributing branch of handle_referral with its own user as
\* the referrer, and a record's credits or referral_count grow only in the
\* $inc step of a handler that another user invoked.
C24_NoSelfReferral ==
    /\ [](\A i \in 1..Len(users) : users[i].referred_by # users[i].referral_code)
    /\ [](\A t \in Tasks : pc[t] \in Attributing => tref[t] # tuser[t])
    /\ [][ \A i \in 1..Len(users) :
              (\/ users'[i].credits > users[i].credits
               \/ users'[i].referral_count > users[i].referral_count) =>
                 \E t \in Tasks :
                    /\ pc[t] = "hr_inc" /\ pc'[t] # "hr_inc"
                    /\ tref[t] = users[i].user_id
                    /\ tuser[t] # users[i].user_id ]_vars

\* a handler whose user sent the user's own code has finished: the code
\* resolved to the user's record, nothing was attributed
C24_Witness ==
    \E t \in Tasks :
        /\ pc[t] = "done"
        /\ targs[t] = <<RefCode(tuser[t])>>
        /\ tref[t] = tuser[t]
        /\ \A i \in 1..Len(users) :
              users[i].user_id = tuser[t] =>
                 (users[i].referral_count = 0 /\ users[i].referred_by = <<>>
                  /\ users[i].credits = welcome_credits)

====
